---------------------------- MODULE Spec2Model ----------------------------
(***************************************************************************)
(* Model of src/qtsurfacetexture/qsurfacetexture.cpp: the QSurfaceTexture  *)
(* quick item, its SurfaceTextureNode scene-graph node and the JNI         *)
(* frame-available callback.                                               *)
(*                                                                         *)
(* Three threads act on the state:                                         *)
(*   "gui"      the item's thread (event loop, item destruction),          *)
(*   "render"   the scene-graph renderer (updatePaintNode, preprocess,     *)
(*              node destruction),                                         *)
(*   "platform" the Android thread that delivers onFrameAvailable.         *)
(* The GUI thread is blocked while updatePaintNode runs (scene-graph sync),*)
(* so updatePaintNode is one step; preprocess runs while the other threads *)
(* are free, so it is one step per call it makes (rpc is its position).    *)
(*                                                                         *)
(* calls[t] is the log of the external calls (GL, JNI, Qt) made by the     *)
(* handler that thread t is running or ran last; its first entry names the *)
(* handler.                                                                *)
(***************************************************************************)
EXTENDS Integers, Sequences, FiniteSets

\* ------------------------------------------------------------- bounds
\* How many times the first-paint block of updatePaintNode may run.
MaxPaintNodes == 2
\* How many frames the platform decodes.
MaxFrames == 2
\* Height of the item's bounding rectangle.
ItemHeight == 2

\* ------------------------------------------------- program constants
\* NewFloatArray(16): a 4x4 matrix.
MatrixLen == 16
\* GetFloatArrayRegion(array, 0, 16, ...)
RegionStart == 0
RegionLen == 16
\* glActiveTexture(GL_TEXTURE0)
GL_TEXTURE0 == 0

Threads == {"gui", "render", "platform"}
\* Texture units of the GL context (the program only names GL_TEXTURE0).
Units == {GL_TEXTURE0, GL_TEXTURE0 + 1}
Ids == 1..MaxPaintNodes
Frames == 1..MaxFrames

VARIABLES
    itemAlive,        \* the QSurfaceTexture item exists (destructor not run)
    shown,            \* the item is in a visible window
    dirty,            \* the item asked for a repaint (QQuickItem::update)
    m_textureId,      \* QSurfaceTexture::m_textureId (0: none; arbitrary until painted)
    m_surfaceTexture, \* QSurfaceTexture::m_surfaceTexture (0: invalid object)
    pendingUpdates,   \* queued "update" invocations in the item's event queue
    sgNode,           \* the paint node the scene graph holds for the item (0: null)
    nodes,            \* every SurfaceTextureNode ever constructed
    created,          \* how often the first-paint block has run
    glTextures,       \* GL texture names generated and not deleted
    texDeletes,       \* per texture name: effective glDeleteTextures calls
    boundTex,         \* per texture unit: the name bound to GL_TEXTURE_EXTERNAL_OES
    activeUnit,       \* the GL context's active texture unit
    st,               \* the Java SurfaceTexture objects
    jniRefs,          \* the JNI global references to float arrays
    rpc,              \* the renderer's position inside preprocess
    calls,            \* per thread: the call log of its current/last handler
    frameCount,       \* frames decoded so far
    stage,            \* per frame: how far its notification has been served
    crashed           \* the process died on a use of freed memory

vars == <<itemAlive, shown, dirty, m_textureId, m_surfaceTexture, pendingUpdates,
          sgNode, nodes, created, glTextures, texDeletes, boundTex, activeUnit,
          st, jniRefs, rpc, calls, frameCount, stage, crashed>>

\* ------------------------------------------------------------ helpers
Call(api, fn, arg, ok) == [api |-> api, fn |-> fn, arg |-> arg, ok |-> ok]

Enter(fn, arg) == Call("enter", fn, arg, TRUE)

GLApis == {"glGenTextures", "glBindTexture", "glDeleteTextures", "glActiveTexture",
           "glTexParameterf:MIN_FILTER:NEAREST", "glTexParameterf:MAG_FILTER:LINEAR",
           "glTexParameteri:WRAP_S:CLAMP_TO_EDGE", "glTexParameteri:WRAP_T:CLAMP_TO_EDGE"}

Zeros == [i \in 1..MatrixLen |-> 0]

\* The 4x4 identity, column by column: a default-constructed QMatrix4x4, and the
\* transform of a SurfaceTexture that has latched no frame.
Identity == [i \in 1..MatrixLen |-> IF (i - 1) % 5 = 0 THEN 1 ELSE 0]

\* The transform matrix the platform attaches to frame f (0: no frame latched
\* yet).  Every frame has its own, and its 16 elements differ.
TransformMatrix(f) ==
    IF f = 0 THEN Identity ELSE [i \in 1..MatrixLen |-> MatrixLen * f + i]

NoNode == [state |-> "unborn", m_surfaceTexture |-> 0, m_textureId |-> 0,
           m_uSTMatrixArray |-> 0, material |-> FALSE, uSTMatrix |-> Zeros,
           usePreprocess |-> FALSE, geometry |-> [top |-> 0, bottom |-> 0],
           dirtyBits |-> {}]

NoSurfaceTexture == [exists |-> FALSE, texName |-> 0, queued |-> 0, latched |-> 0,
                     listener |-> 0]

NoRef == [state |-> "free", data |-> Zeros, news |-> 0, dels |-> 0]

\* The address of the item, as handed to the Java listener: jlong(this).
ThisItem == 1

\* ------------------------------------------------ the code's pieces
\* QSurfaceTexture::QSurfaceTexture: setFlags(ItemHasContents).
ItemFlags == {"ItemHasContents"}

\* A variant of NeedsCreate that runs the first-paint block on every call.
NeedsCreateAlways(n) == TRUE

\* updatePaintNode: if (!node) -- the first-paint block runs for a null node.
NeedsCreate(n) == n = 0

\* updatePaintNode: "flip vertical" of boundingRect() = (0, 0, w, ItemHeight):
\* setTop(bottom) then setBottom(old top).
FlippedRect == [top |-> ItemHeight, bottom |-> 0]

\* A variant of NewNode whose constructor forgets setFlag(UsePreprocess).
NewNodeNoPreprocess(surfaceTexture, textureId, ref) ==
    [state |-> "live", m_surfaceTexture |-> surfaceTexture, m_textureId |-> textureId,
     m_uSTMatrixArray |-> ref, material |-> TRUE, uSTMatrix |-> Identity,
     usePreprocess |-> FALSE, geometry |-> [top |-> 0, bottom |-> 0],
     dirtyBits |-> {}]

\* SurfaceTextureNode::SurfaceTextureNode(surfaceTexture, textureId); ref is the
\* global reference NewGlobalRef returned.
NewNode(surfaceTexture, textureId, ref) ==
    [state |-> "live", m_surfaceTexture |-> surfaceTexture, m_textureId |-> textureId,
     m_uSTMatrixArray |-> ref, material |-> TRUE, uSTMatrix |-> Identity,
     usePreprocess |-> TRUE, geometry |-> [top |-> 0, bottom |-> 0],
     dirtyBits |-> {}]

\* The constructor's NewFloatArray(16) / NewGlobalRef / DeleteLocalRef: one new
\* global reference to a zeroed array.
NodeConstructorRefs(refs, ref) ==
    [refs EXCEPT ![ref] = [state |-> "live", data |-> Zeros,
                           news |-> @.news + 1, dels |-> @.dels]]

\* A variant of NodeDestructorRefs whose destructor leaks the reference.
NodeDestructorRefsLeak(refs, ref) == refs

\* SurfaceTextureNode::~SurfaceTextureNode: DeleteGlobalRef(m_uSTMatrixArray).
NodeDestructorRefs(refs, ref) ==
    [refs EXCEPT ![ref] = [state |-> "deleted", data |-> @.data,
                           news |-> @.news, dels |-> @.dels + 1]]

\* A variant of PreprocessNext that reads the matrix before latching the frame.
PreprocessNextSwapped(pc, mat) ==
    CASE pc = "enter" -> (IF mat THEN "getTransformMatrix" ELSE "idle")
      [] pc = "getTransformMatrix" -> "updateTexImage"
      [] pc = "updateTexImage" -> "GetFloatArrayRegion"
      [] pc = "GetFloatArrayRegion" -> "glActiveTexture"
      [] pc = "glActiveTexture" -> "glBindTexture"
      [] OTHER -> "idle"

\* A variant of PreprocessNext without the null-material check.
PreprocessNextNoCheck(pc, mat) ==
    CASE pc = "enter" -> "updateTexImage"
      [] pc = "updateTexImage" -> "getTransformMatrix"
      [] pc = "getTransformMatrix" -> "GetFloatArrayRegion"
      [] pc = "GetFloatArrayRegion" -> "glActiveTexture"
      [] pc = "glActiveTexture" -> "glBindTexture"
      [] OTHER -> "idle"

\* The statement order of SurfaceTextureNode::preprocess: the call that follows
\* position pc ("enter": the material check; "idle": returned).
PreprocessNext(pc, mat) ==
    CASE pc = "enter" -> (IF mat THEN "updateTexImage" ELSE "idle")
      [] pc = "updateTexImage" -> "getTransformMatrix"
      [] pc = "getTransformMatrix" -> "GetFloatArrayRegion"
      [] pc = "GetFloatArrayRegion" -> "glActiveTexture"
      [] pc = "glActiveTexture" -> "glBindTexture"
      [] OTHER -> "idle"

\* A variant of GetFloatArrayRegion that copies 12 floats (3 columns) only.
GetFloatArrayRegionShort(matrix, array) ==
    [i \in 1..MatrixLen |->
        IF i - 1 >= RegionStart /\ i - 1 < RegionStart + RegionLen - 4
        THEN array[i] ELSE matrix[i]]

\* env->GetFloatArrayRegion(m_uSTMatrixArray, 0, 16, uSTMatrix.data()): the
\* elements start .. start+len-1 of the array overwrite those of the matrix.
GetFloatArrayRegion(matrix, array) ==
    [i \in 1..MatrixLen |->
        IF i - 1 >= RegionStart /\ i - 1 < RegionStart + RegionLen
        THEN array[i] ELSE matrix[i]]

\* A variant of InvokeUpdate with a direct connection: update runs at once on
\* the caller's thread and nothing is queued.
InvokeUpdateDirect(pending, isDirty) == [pending |-> pending, dirty |-> TRUE]

\* QMetaObject::invokeMethod(item, "update", Qt::QueuedConnection) on a live
\* item: the invocation is queued, nothing runs on the caller's thread.
InvokeUpdate(pending, isDirty) == [pending |-> pending + 1, dirty |-> isDirty]

\* ------------------------------------------------------------ Init
\* What m_textureId may hold before the first paint.  The constructor does not
\* initialize it, so unless the class declaration does, it holds whatever the
\* item's storage held: 0, a value that glGenTextures will later hand out, or a
\* value that never names a texture (MaxPaintNodes + 1 stands for all those).
UninitTextureIds == 0..(MaxPaintNodes + 1)

\* The state after QSurfaceTexture's constructor, which sets the item's flags
\* and nothing else.
Init ==
    /\ itemAlive = TRUE
    /\ shown = TRUE
    /\ dirty = ("ItemHasContents" \in ItemFlags)
    /\ m_textureId \in UninitTextureIds
    /\ m_surfaceTexture = 0
    /\ pendingUpdates = 0
    /\ sgNode = 0
    /\ nodes = [n \in Ids |-> NoNode]
    /\ created = 0
    /\ glTextures = {}
    /\ texDeletes = [t \in Ids |-> 0]
    /\ boundTex = [u \in Units |-> 0]
    /\ activeUnit \in Units
    /\ st = [s \in Ids |-> NoSurfaceTexture]
    /\ jniRefs = [r \in Ids |-> NoRef]
    /\ rpc = "idle"
    /\ calls = [t \in Threads |-> <<>>]
    /\ frameCount = 0
    /\ stage = [f \in Frames |-> "none"]
    /\ crashed = FALSE

\* ---------------------------------------------------- platform thread
\* The platform decodes a frame into SurfaceTexture s and its listener calls
\* Java_com_kdab_android_SurfaceTextureListener_frameAvailable(ptr).  The
\* listener keeps the item's address for as long as the Java object lives; the
\* item's destructor does not unregister it.  With the item destroyed the
\* pointer dangles: the process may die or carry on.
FrameAvailable(s) ==
    /\ ~crashed
    /\ st[s].exists /\ st[s].listener = ThisItem
    /\ frameCount < MaxFrames
    /\ frameCount' = frameCount + 1
    /\ st' = [st EXCEPT ![s].queued = frameCount + 1]
    /\ calls' = [calls EXCEPT !["platform"] =
                    << Enter("frameAvailable", st[s].listener),
                       Call("invokeMethod:update:QueuedConnection", "frameAvailable",
                            st[s].listener, itemAlive) >>]
    /\ IF itemAlive
       THEN /\ pendingUpdates' = InvokeUpdate(pendingUpdates, dirty).pending
            /\ dirty' = InvokeUpdate(pendingUpdates, dirty).dirty
            /\ stage' = [stage EXCEPT ![frameCount + 1] = "notified"]
            /\ crashed' = FALSE
       ELSE /\ crashed' \in BOOLEAN
            /\ UNCHANGED <<pendingUpdates, dirty, stage>>
    /\ UNCHANGED <<itemAlive, shown, m_textureId, m_surfaceTexture, sgNode, nodes,
                   created, glTextures, texDeletes, boundTex, activeUnit, jniRefs, rpc>>

\* --------------------------------------------------------- GUI thread
\* The item's event loop delivers one queued "update" invocation:
\* QQuickItem::update() schedules a repaint of an item with ItemHasContents.
DeliverUpdate ==
    /\ ~crashed
    /\ itemAlive
    /\ pendingUpdates > 0
    /\ pendingUpdates' = pendingUpdates - 1
    /\ dirty' = (dirty \/ "ItemHasContents" \in ItemFlags)
    /\ calls' = [calls EXCEPT !["gui"] = << Enter("update", ThisItem) >>]
    /\ UNCHANGED <<itemAlive, shown, m_textureId, m_surfaceTexture, sgNode, nodes,
                   created, glTextures, texDeletes, boundTex, activeUnit, st, jniRefs,
                   rpc, frameCount, stage, crashed>>

\* The window is hidden or the item leaves it.
Hide ==
    /\ ~crashed
    /\ itemAlive /\ shown
    /\ shown' = FALSE
    /\ UNCHANGED <<itemAlive, dirty, m_textureId, m_surfaceTexture, pendingUpdates,
                   sgNode, nodes, created, glTextures, texDeletes, boundTex, activeUnit,
                   st, jniRefs, rpc, calls, frameCount, stage, crashed>>

\* The item is shown again: an item with contents is repainted.
Show ==
    /\ ~crashed
    /\ itemAlive /\ ~shown
    /\ shown' = TRUE
    /\ dirty' = (dirty \/ "ItemHasContents" \in ItemFlags)
    /\ UNCHANGED <<itemAlive, m_textureId, m_surfaceTexture, pendingUpdates,
                   sgNode, nodes, created, glTextures, texDeletes, boundTex, activeUnit,
                   st, jniRefs, rpc, calls, frameCount, stage, crashed>>

\* QSurfaceTexture::~QSurfaceTexture, run on the item's thread.  That thread
\* has no current GL context, so whether its GL calls act on the renderer's
\* context is up to the driver: both outcomes are modelled.  Deleting a name
\* that is no texture (an item never painted, m_textureId never assigned) is
\* ignored by GL.  ~QObject then drops the events posted to the item.
Destroy ==
    /\ ~crashed
    /\ itemAlive
    /\ itemAlive' = FALSE
    /\ shown' = FALSE
    /\ pendingUpdates' = 0
    /\ m_surfaceTexture' = 0
    /\ IF m_textureId # 0
       THEN /\ calls' = [calls EXCEPT !["gui"] =
                    << Enter("~QSurfaceTexture", ThisItem),
                       Call("glBindTexture", "~QSurfaceTexture", 0, TRUE),
                       Call("glDeleteTextures", "~QSurfaceTexture", m_textureId,
                            m_textureId \in glTextures) >>]
            /\ \E effective \in BOOLEAN :
                 IF effective
                 THEN /\ boundTex' = [boundTex EXCEPT ![activeUnit] = 0]
                      /\ glTextures' = glTextures \ {m_textureId}
                      /\ texDeletes' = IF m_textureId \in glTextures
                                        THEN [texDeletes EXCEPT ![m_textureId] = @ + 1]
                                        ELSE texDeletes
                 ELSE UNCHANGED <<boundTex, glTextures, texDeletes>>
       ELSE /\ calls' = [calls EXCEPT !["gui"] = << Enter("~QSurfaceTexture", ThisItem) >>]
            /\ UNCHANGED <<boundTex, glTextures, texDeletes>>
    /\ UNCHANGED <<dirty, m_textureId, sgNode, nodes, created, activeUnit, st, jniRefs,
                   rpc, frameCount, stage, crashed>>

\* ------------------------------------------------------ render thread
\* The first-paint block of QSurfaceTexture::updatePaintNode: the calls it makes
\* for the new texture t, SurfaceTexture s, node n and global reference r.
FirstPaintCalls(t, s, n, r) ==
    << Call("glGenTextures", "updatePaintNode", t, TRUE),
       Call("glBindTexture", "updatePaintNode", t, TRUE),
       Call("glTexParameterf:MIN_FILTER:NEAREST", "updatePaintNode", t, TRUE),
       Call("glTexParameterf:MAG_FILTER:LINEAR", "updatePaintNode", t, TRUE),
       Call("glTexParameteri:WRAP_S:CLAMP_TO_EDGE", "updatePaintNode", t, TRUE),
       Call("glTexParameteri:WRAP_T:CLAMP_TO_EDGE", "updatePaintNode", t, TRUE),
       Call("new SurfaceTexture", "updatePaintNode", s, TRUE),
       Call("setOnFrameAvailableListener", "updatePaintNode", ThisItem, TRUE),
       Call("new SurfaceTextureNode", "updatePaintNode", n, TRUE),
       Call("NewGlobalRef", "SurfaceTextureNode", r, TRUE) >>

\* What every updatePaintNode call does to the node it returns: the flipped
\* geometry and markDirty(DirtyGeometry | DirtyMaterial).
Repainted(node) ==
    [node EXCEPT !.geometry = FlippedRect,
                 !.dirtyBits = {"DirtyGeometry", "DirtyMaterial"}]

\* QSurfaceTexture::updatePaintNode(n = sgNode), called by the scene graph's
\* sync for a dirty, visible item while the GUI thread is blocked.
UpdatePaintNode ==
    /\ ~crashed
    /\ itemAlive /\ shown /\ dirty
    /\ rpc = "idle"
    /\ NeedsCreate(sgNode) => created < MaxPaintNodes
    /\ LET new == created + 1
           node == IF NeedsCreate(sgNode) THEN new ELSE sgNode
       IN  /\ IF NeedsCreate(sgNode)
              THEN /\ created' = new
                   /\ glTextures' = glTextures \cup {new}
                   /\ boundTex' = [boundTex EXCEPT ![activeUnit] = new]
                   /\ m_textureId' = new
                   /\ m_surfaceTexture' = new
                   /\ st' = [st EXCEPT ![new] =
                               [exists |-> TRUE, texName |-> new, queued |-> 0,
                                latched |-> 0, listener |-> ThisItem]]
                   /\ jniRefs' = NodeConstructorRefs(jniRefs, new)
                   /\ nodes' = [nodes EXCEPT ![new] = Repainted(NewNode(new, new, new))]
                   /\ calls' = [calls EXCEPT !["render"] =
                                  << Enter("updatePaintNode", sgNode) >>
                                  \o FirstPaintCalls(new, new, new, new)
                                  \o << Call("markDirty", "updatePaintNode", node, TRUE) >>]
              ELSE /\ nodes' = [nodes EXCEPT ![node] = Repainted(@)]
                   /\ calls' = [calls EXCEPT !["render"] =
                                  << Enter("updatePaintNode", sgNode),
                                     Call("markDirty", "updatePaintNode", node, TRUE) >>]
                   /\ UNCHANGED <<created, glTextures, boundTex, m_textureId,
                                  m_surfaceTexture, st, jniRefs>>
           /\ sgNode' = node
    /\ dirty' = FALSE
    /\ stage' = [f \in Frames |-> IF stage[f] = "notified" THEN "painted" ELSE stage[f]]
    /\ UNCHANGED <<itemAlive, shown, pendingUpdates, texDeletes, activeUnit, rpc,
                   frameCount, crashed>>

\* The scene graph deletes the item's paint node on the render thread (the
\* item left the window, or was destroyed): ~SurfaceTextureNode runs.  While
\* the item lives a node is only discarded if a new one can still be created.
NodeDiscard ==
    /\ ~crashed
    /\ sgNode # 0
    /\ rpc = "idle"
    /\ ~itemAlive \/ (~shown /\ created < MaxPaintNodes)
    /\ jniRefs' = NodeDestructorRefs(jniRefs, nodes[sgNode].m_uSTMatrixArray)
    /\ nodes' = [nodes EXCEPT ![sgNode].state = "deleted"]
    /\ sgNode' = 0
    /\ calls' = [calls EXCEPT !["render"] =
                    << Enter("~SurfaceTextureNode", sgNode),
                       Call("DeleteGlobalRef", "~SurfaceTextureNode",
                            nodes[sgNode].m_uSTMatrixArray,
                            jniRefs[nodes[sgNode].m_uSTMatrixArray].state = "live") >>]
    /\ UNCHANGED <<itemAlive, shown, dirty, m_textureId, m_surfaceTexture,
                   pendingUpdates, created, glTextures, texDeletes, boundTex,
                   activeUnit, st, rpc, frameCount, stage, crashed>>

\* The renderer calls SurfaceTextureNode::preprocess on the node in its tree,
\* which has UsePreprocess set; a dirty visible item is synced first.  The
\* material check is made here: a null material returns at once.
PreprocessEnter ==
    /\ ~crashed
    /\ sgNode # 0 /\ nodes[sgNode].usePreprocess
    /\ rpc = "idle"
    /\ ~(itemAlive /\ shown /\ dirty)
    /\ rpc' = PreprocessNext("enter", nodes[sgNode].material)
    /\ nodes' = [nodes EXCEPT ![sgNode].dirtyBits = {}]
    /\ calls' = [calls EXCEPT !["render"] = << Enter("preprocess", sgNode) >>]
    /\ UNCHANGED <<itemAlive, shown, dirty, m_textureId, m_surfaceTexture,
                   pendingUpdates, sgNode, created, glTextures, texDeletes, boundTex,
                   activeUnit, st, jniRefs, frameCount, stage, crashed>>

\* m_surfaceTexture.callMethod<void>("updateTexImage"): the SurfaceTexture
\* latches the newest queued frame and binds its texture to the external
\* target of the active unit.  The log entry carries the frame latched.
PUpdateTexImage ==
    /\ ~crashed
    /\ rpc = "updateTexImage"
    /\ LET s == nodes[sgNode].m_surfaceTexture
       IN  /\ st' = [st EXCEPT ![s].latched = st[s].queued]
           /\ boundTex' = [boundTex EXCEPT ![activeUnit] = st[s].texName]
           /\ calls' = [calls EXCEPT !["render"] =
                           Append(@, Call("updateTexImage", "preprocess",
                                          st[s].queued, st[s].exists))]
    /\ stage' = [f \in Frames |-> IF stage[f] = "painted" THEN "latched" ELSE stage[f]]
    /\ rpc' = PreprocessNext(rpc, nodes[sgNode].material)
    /\ UNCHANGED <<itemAlive, shown, dirty, m_textureId, m_surfaceTexture,
                   pendingUpdates, sgNode, nodes, created, glTextures, texDeletes,
                   activeUnit, jniRefs, frameCount, crashed>>

\* m_surfaceTexture.callMethod<void>("getTransformMatrix", "([F)V", m_uSTMatrixArray):
\* the latched frame's matrix is written into the float array.
PGetTransformMatrix ==
    /\ ~crashed
    /\ rpc = "getTransformMatrix"
    /\ LET s == nodes[sgNode].m_surfaceTexture
           r == nodes[sgNode].m_uSTMatrixArray
       IN  /\ jniRefs' = [jniRefs EXCEPT ![r].data = TransformMatrix(st[s].latched)]
           /\ calls' = [calls EXCEPT !["render"] =
                           Append(@, Call("getTransformMatrix", "preprocess", r,
                                          jniRefs[r].state = "live"))]
    /\ rpc' = PreprocessNext(rpc, nodes[sgNode].material)
    /\ UNCHANGED <<itemAlive, shown, dirty, m_textureId, m_surfaceTexture,
                   pendingUpdates, sgNode, nodes, created, glTextures, texDeletes,
                   boundTex, activeUnit, st, frameCount, stage, crashed>>

\* env->GetFloatArrayRegion(m_uSTMatrixArray, 0, 16, mat->state()->uSTMatrix.data())
PGetFloatArrayRegion ==
    /\ ~crashed
    /\ rpc = "GetFloatArrayRegion"
    /\ LET r == nodes[sgNode].m_uSTMatrixArray
       IN  /\ nodes' = [nodes EXCEPT ![sgNode].uSTMatrix =
                           GetFloatArrayRegion(@, jniRefs[r].data)]
           /\ calls' = [calls EXCEPT !["render"] =
                           Append(@, Call("GetFloatArrayRegion", "preprocess", r,
                                          jniRefs[r].state = "live"))]
    /\ rpc' = PreprocessNext(rpc, nodes[sgNode].material)
    /\ UNCHANGED <<itemAlive, shown, dirty, m_textureId, m_surfaceTexture,
                   pendingUpdates, sgNode, created, glTextures, texDeletes, boundTex,
                   activeUnit, st, jniRefs, frameCount, stage, crashed>>

\* glActiveTexture(GL_TEXTURE0)
PGlActiveTexture ==
    /\ ~crashed
    /\ rpc = "glActiveTexture"
    /\ activeUnit' = GL_TEXTURE0
    /\ calls' = [calls EXCEPT !["render"] =
                    Append(@, Call("glActiveTexture", "preprocess", GL_TEXTURE0, TRUE))]
    /\ rpc' = PreprocessNext(rpc, nodes[sgNode].material)
    /\ UNCHANGED <<itemAlive, shown, dirty, m_textureId, m_surfaceTexture,
                   pendingUpdates, sgNode, nodes, created, glTextures, texDeletes,
                   boundTex, st, jniRefs, frameCount, stage, crashed>>

\* glBindTexture(GL_TEXTURE_EXTERNAL_OES, m_textureId), then preprocess returns.
PGlBindTexture ==
    /\ ~crashed
    /\ rpc = "glBindTexture"
    /\ boundTex' = [boundTex EXCEPT ![activeUnit] = nodes[sgNode].m_textureId]
    /\ calls' = [calls EXCEPT !["render"] =
                    Append(@, Call("glBindTexture", "preprocess",
                                   nodes[sgNode].m_textureId, TRUE))]
    /\ rpc' = PreprocessNext(rpc, nodes[sgNode].material)
    /\ UNCHANGED <<itemAlive, shown, dirty, m_textureId, m_surfaceTexture,
                   pendingUpdates, sgNode, nodes, created, glTextures, texDeletes,
                   activeUnit, st, jniRefs, frameCount, stage, crashed>>

\* ------------------------------------------------------ specification
Next ==
    \/ \E s \in Ids : FrameAvailable(s)
    \/ DeliverUpdate
    \/ Hide
    \/ Show
    \/ Destroy
    \/ UpdatePaintNode
    \/ NodeDiscard
    \/ PreprocessEnter
    \/ PUpdateTexImage
    \/ PGetTransformMatrix
    \/ PGetFloatArrayRegion
    \/ PGlActiveTexture
    \/ PGlBindTexture

Spec == Init /\ [][Next]_vars

\* The scheduling the two host loops guarantee: the item's event loop delivers
\* queued invocations, the scene graph syncs a dirty visible item, renders a
\* node that was marked dirty, and a preprocess call that started runs on.
RenderDirtyNode ==
    /\ sgNode # 0
    /\ nodes[sgNode].dirtyBits # {}
    /\ PreprocessEnter

PreprocessStep ==
    \/ PUpdateTexImage
    \/ PGetTransformMatrix
    \/ PGetFloatArrayRegion
    \/ PGlActiveTexture
    \/ PGlBindTexture

\* The behaviours in which the item stays alive and shown: every handler runs,
\* but the item is neither hidden nor destroyed and its node is not discarded.
ShownNext ==
    \/ \E s \in Ids : FrameAvailable(s)
    \/ DeliverUpdate
    \/ UpdatePaintNode
    \/ PreprocessEnter
    \/ PUpdateTexImage
    \/ PGetTransformMatrix
    \/ PGetFloatArrayRegion
    \/ PGlActiveTexture
    \/ PGlBindTexture

Fairness ==
    /\ WF_vars(DeliverUpdate)
    /\ WF_vars(UpdatePaintNode)
    /\ WF_vars(RenderDirtyNode)
    /\ WF_vars(PreprocessStep)

LiveSpec == Init /\ [][ShownNext]_vars /\ Fairness

\* The same scheduling over all behaviours, hiding and destruction included.
FullLiveSpec == Init /\ [][Next]_vars /\ Fairness

\* ------------------------------------------ preprocess on any node state
\* SurfaceTextureNode::preprocess applied to a painted item's node in every
\* state its fields can take, the material pointer null or set included.
PreInit ==
    /\ itemAlive = TRUE
    /\ shown = TRUE
    /\ dirty = FALSE
    /\ m_textureId = 1
    /\ m_surfaceTexture = 1
    /\ pendingUpdates = 0
    /\ sgNode = 1
    /\ \E mat \in BOOLEAN :
         nodes = [n \in Ids |->
                    IF n = 1
                    THEN [Repainted(NewNode(1, 1, 1)) EXCEPT !.material = mat]
                    ELSE NoNode]
    /\ created = 1
    /\ glTextures = {1}
    /\ texDeletes = [t \in Ids |-> 0]
    /\ boundTex \in [Units -> {0, 1}]
    /\ activeUnit \in Units
    /\ st = [s \in Ids |->
               IF s = 1
               THEN [exists |-> TRUE, texName |-> 1, queued |-> 0, latched |-> 0,
                     listener |-> ThisItem]
               ELSE NoSurfaceTexture]
    /\ jniRefs = NodeConstructorRefs([r \in Ids |-> NoRef], 1)
    /\ rpc = "idle"
    /\ calls = [t \in Threads |-> <<>>]
    /\ frameCount = 0
    /\ stage = [f \in Frames |-> "none"]
    /\ crashed = FALSE

PreNext ==
    \/ \E s \in Ids : FrameAvailable(s)
    \/ PreprocessEnter
    \/ PUpdateTexImage
    \/ PGetTransformMatrix
    \/ PGetFloatArrayRegion
    \/ PGlActiveTexture
    \/ PGlBindTexture

PreSpec == PreInit /\ [][PreNext]_vars

\* ------------------------------------------------------------- claims
\* The render thread's log is that of a preprocess call.
InPreprocess == calls["render"] # <<>> /\ Head(calls["render"]).fn = "preprocess"

\* preprocess has returned and nothing else ran on the render thread since.
PreprocessReturned == InPreprocess /\ rpc = "idle"

\* The step is the entry of a preprocess call.
PreprocessEntered ==
    /\ rpc = "idle"
    /\ calls'["render"] # calls["render"]
    /\ calls'["render"] # <<>> /\ Head(calls'["render"]).fn = "preprocess"

Apis(log) == [i \in 1..Len(log) |-> log[i].api]

IsPrefix(a, b) == Len(a) <= Len(b) /\ \A i \in 1..Len(a) : a[i] = b[i]

\* The per-frame calls of preprocess, in the order the claim C6 states.
FrameSteps == << "enter", "updateTexImage", "getTransformMatrix",
                 "GetFloatArrayRegion", "glActiveTexture", "glBindTexture" >>

\* C1: every GL call the program issues is made by the renderer thread from
\* within updatePaintNode or preprocess, never by the GUI or platform thread.
\* Stated for an item that has been painted, where m_textureId is the texture
\* the item generated whatever it held at construction.
C1_GLOnlyOnRenderThread ==
    created >= 1 =>
        \A t \in Threads : \A i \in 1..Len(calls[t]) :
            calls[t][i].api \in GLApis =>
                /\ t = "render"
                /\ calls[t][i].fn \in {"updatePaintNode", "preprocess"}

\* C2: a frameAvailable callback makes exactly one call, the queued invocation
\* of "update"; it does not run update on its own thread (the item's dirty flag
\* is as before), makes no GL or SurfaceTexture call, latches no frame and
\* leaves the item, the nodes, the GL state and the float arrays as they were;
\* on a live item the queue of pending invocations grows by exactly one.
C2_CallbackOnlyEnqueues ==
    [][frameCount' # frameCount =>
          /\ Apis(calls'["platform"]) = << "enter", "invokeMethod:update:QueuedConnection" >>
          /\ calls'["gui"] = calls["gui"]
          /\ calls'["render"] = calls["render"]
          /\ dirty' = dirty
          /\ \A s \in Ids : st'[s].latched = st[s].latched
          /\ UNCHANGED <<itemAlive, shown, m_textureId, m_surfaceTexture, sgNode, nodes,
                         created, glTextures, texDeletes, boundTex, activeUnit, jniRefs,
                         rpc>>
          /\ itemAlive => pendingUpdates' = pendingUpdates + 1
      ]_vars

\* C2's case: a callback on a live item whose repaint was not already
\* requested, with the invocation queued and not yet delivered.
C2_Witness ==
    /\ Len(calls["platform"]) = 2 /\ calls["platform"][2].ok
    /\ itemAlive /\ ~dirty
    /\ pendingUpdates >= 1
    /\ rpc # "idle"

\* C3: updatePaintNode runs its first-paint block exactly when the node it is
\* given is null: then it generates one texture, constructs one SurfaceTexture
\* with the listener registered, and one node that holds both; given a non-null
\* node it returns that node, creates nothing and leaves m_textureId and
\* m_surfaceTexture unchanged.
C3_CreatedOnFirstPaintOnly ==
    [][(dirty /\ ~dirty') =>
          IF sgNode = 0
          THEN /\ created' = created + 1
               /\ sgNode' # 0 /\ nodes[sgNode'].state = "unborn"
               /\ nodes'[sgNode'].state = "live"
               /\ m_textureId' \notin glTextures
               /\ glTextures' = glTextures \cup {m_textureId'}
               /\ ~st[m_surfaceTexture'].exists
               /\ st'[m_surfaceTexture'].exists
               /\ st'[m_surfaceTexture'].listener = ThisItem
               /\ st'[m_surfaceTexture'].texName = m_textureId'
               /\ nodes'[sgNode'].m_textureId = m_textureId'
               /\ nodes'[sgNode'].m_surfaceTexture = m_surfaceTexture'
          ELSE /\ sgNode' = sgNode
               /\ UNCHANGED <<m_textureId, m_surfaceTexture, created, glTextures, st,
                              jniRefs, boundTex>>
               /\ \A n \in Ids : nodes'[n].state = nodes[n].state
               /\ \A i \in 1..Len(calls'["render"]) :
                     calls'["render"][i].api \in {"enter", "markDirty"}
      ]_vars

\* C3's case: updatePaintNode was called with the node a previous call made.
C3_Witness ==
    /\ calls["render"] # <<>>
    /\ Head(calls["render"]).fn = "updatePaintNode"
    /\ Head(calls["render"]).arg # 0
    /\ sgNode = Head(calls["render"]).arg
    /\ m_textureId # 0

\* C4: when preprocess has returned on a node with a material, the 16 elements
\* of the material's uSTMatrix are the transform of the frame that this call's
\* updateTexImage latched, which is the frame the SurfaceTexture still holds.
C4_MatrixMirrorsLatchedFrame ==
    (PreprocessReturned /\ sgNode # 0 /\ nodes[sgNode].material) =>
        /\ Len(calls["render"]) >= 2
        /\ calls["render"][2].api = "updateTexImage"
        /\ st[nodes[sgNode].m_surfaceTexture].latched = calls["render"][2].arg
        /\ \A i \in 1..MatrixLen :
              nodes[sgNode].uSTMatrix[i] = TransformMatrix(calls["render"][2].arg)[i]

\* C4's case: preprocess returned with the second frame latched, the newest
\* one, although only the first frame's notification had led to a repaint.
C4_Witness ==
    /\ PreprocessReturned /\ sgNode # 0 /\ nodes[sgNode].material
    /\ st[nodes[sgNode].m_surfaceTexture].latched = 2
    /\ stage[1] = "latched"
    /\ stage[2] = "notified"

\* C5: each node's float-array global reference is created once, by the node's
\* constructor, stays live and the same while the node lives, is deleted once,
\* by the node's destructor; no other reference is ever created, and every use
\* of the array by preprocess is of the node's own reference while it is live.
C5_GlobalRefLifecycle ==
    /\ \A n \in Ids :
          LET r == nodes[n].m_uSTMatrixArray IN
          /\ nodes[n].state = "live" =>
                /\ r # 0
                /\ jniRefs[r].state = "live" /\ jniRefs[r].news = 1 /\ jniRefs[r].dels = 0
          /\ nodes[n].state = "deleted" =>
                /\ r # 0
                /\ jniRefs[r].state = "deleted" /\ jniRefs[r].news = 1 /\ jniRefs[r].dels = 1
    /\ \A n, m \in Ids :
          (n # m /\ nodes[n].state # "unborn" /\ nodes[m].state # "unborn") =>
              nodes[n].m_uSTMatrixArray # nodes[m].m_uSTMatrixArray
    /\ \A r \in Ids :
          jniRefs[r].state # "free" =>
              \E n \in Ids : nodes[n].state # "unborn" /\ nodes[n].m_uSTMatrixArray = r
    /\ InPreprocess =>
          \A i \in 2..Len(calls["render"]) :
              /\ calls["render"][i].api \notin {"NewGlobalRef", "DeleteGlobalRef"}
              /\ calls["render"][i].api \in {"getTransformMatrix", "GetFloatArrayRegion"} =>
                    /\ calls["render"][i].arg = nodes[Head(calls["render"]).arg].m_uSTMatrixArray
                    /\ calls["render"][i].ok

\* C5's case: one node was destroyed, a second one lives and its preprocess
\* has read the array.
C5_Witness ==
    /\ \E n \in Ids : nodes[n].state = "deleted"
    /\ sgNode # 0 /\ nodes[sgNode].state = "live"
    /\ PreprocessReturned
    /\ Len(calls["render"]) = Len(FrameSteps)

\* C6: a preprocess call on a node with a material makes its calls in the one
\* order updateTexImage, getTransformMatrix, GetFloatArrayRegion,
\* glActiveTexture(GL_TEXTURE0), glBindTexture(own texture id), each once: at
\* every moment its log is the prefix of that sequence up to its position, and
\* the whole sequence once it has returned.
C6_FixedFrameSequence ==
    (InPreprocess /\ sgNode # 0 /\ nodes[sgNode].material) =>
        LET log == calls["render"] IN
        /\ IsPrefix(Apis(log), FrameSteps)
        /\ rpc = "idle" => Len(log) = Len(FrameSteps)
        /\ rpc # "idle" => rpc = FrameSteps[Len(log) + 1]
        /\ Len(log) >= 5 => log[5].arg = GL_TEXTURE0
        /\ Len(log) >= 6 => log[6].arg = nodes[sgNode].m_textureId

\* C6's case: preprocess of the second node ran to its end and bound that
\* node's texture, not the first one's.
C6_Witness ==
    /\ PreprocessReturned
    /\ sgNode = 2
    /\ Len(calls["render"]) = Len(FrameSteps)
    /\ boundTex[GL_TEXTURE0] = 2

\* C7: while the item is alive and shown, every frameAvailable notification is
\* followed by an updatePaintNode call and then by a preprocess call that
\* executes updateTexImage (stage records that order for each frame).
C7_FrameLeadsToLatch ==
    \A f \in Frames : (stage[f] = "notified") ~> (stage[f] = "latched")

\* The same over all behaviours (FullLiveSpec): a notification is served unless
\* the item is hidden or destroyed first.
FrameLeadsToLatchUnlessGone ==
    \A f \in Frames :
        (stage[f] = "notified") ~> (stage[f] = "latched" \/ ~itemAlive \/ ~shown)

\* C7's case: two notifications were served by one repaint of a live, shown
\* item.
C7_Witness ==
    /\ itemAlive /\ shown
    /\ stage[1] = "latched" /\ stage[2] = "latched"
    /\ created = 1 /\ rpc = "getTransformMatrix"

\* C8: preprocess on a node whose material is null returns at once: it makes no
\* call, latches no frame, and leaves the float arrays, the matrix, the active
\* unit and the texture bindings unchanged.
C8_NullMaterialNoEffect ==
    [][(PreprocessEntered /\ ~nodes[sgNode].material) =>
          /\ rpc' = "idle"
          /\ Apis(calls'["render"]) = << "enter" >>
          /\ UNCHANGED <<st, jniRefs, boundTex, activeUnit, glTextures, texDeletes>>
          /\ nodes'[sgNode].uSTMatrix = nodes[sgNode].uSTMatrix
      ]_vars

\* C8's case: preprocess returned on a node without material while a decoded
\* frame waits unlatched.
C8_Witness ==
    /\ InPreprocess
    /\ sgNode # 0 /\ ~nodes[sgNode].material
    /\ rpc = "idle"
    /\ st[nodes[sgNode].m_surfaceTexture].queued > st[nodes[sgNode].m_surfaceTexture].latched

\* C9: the frameAvailable callback never uses the item pointer after the item's
\* destructor has run.
C9_NoCallbackOnDestroyedItem ==
    \A i \in 1..Len(calls["platform"]) :
        calls["platform"][i].api = "invokeMethod:update:QueuedConnection" =>
            calls["platform"][i].ok

\* C10: at every moment the item has at most one generated-but-undeleted
\* texture, and no texture is deleted twice.
C10_AtMostOneLiveTexture ==
    /\ Cardinality(glTextures) <= 1
    /\ \A t \in Ids : texDeletes[t] <= 1
=============================================================================
